---- MODULE Spec2Model ----
(***************************************************************************)
(* Weather-Dashboard: the ingestion / persistence / alerting pipeline of   *)
(* src/weather_pipeline.py as a state machine.                             *)
(*                                                                         *)
(* Text values (environment variables) are sequences of one-character      *)
(* strings, so that strip(), split(), lower(), float() and int() are       *)
(* computed the way Python computes them.                                  *)
(***************************************************************************)
EXTENDS Integers, Sequences, FiniteSets, TLC

(***************************************************************************)
(* Bounds of the model.                                                    *)
(***************************************************************************)
\* number of configured locations that are modelled (CITIES has ten)
NumCities == 2
\* number of pipeline cycles one process runs in the model
MaxCycles == 2
\* number of 60-second polls of main's loop that make up the schedule period
\* (60 in the program: every().hour against time.sleep(60)), scaled down
IntervalPolls == 1
\* number of locations in the batches handed to check_alerts in SpecAlerts
NumAlertCities == 3
\* longest raw text of an environment variable drawn in SpecConfig
MaxLen == 3

(***************************************************************************)
(* Python text as sequences of characters.                                 *)
(***************************************************************************)
\* os.getenv of a variable that is not set
None == <<"<None>">>

Digits == {"0", "1", "2", "3", "4", "5", "6", "7", "8", "9"}

DigitVal(c) ==
    CASE c = "0" -> 0 [] c = "1" -> 1 [] c = "2" -> 2 [] c = "3" -> 3
      [] c = "4" -> 4 [] c = "5" -> 5 [] c = "6" -> 6 [] c = "7" -> 7
      [] c = "8" -> 8 [] c = "9" -> 9

\* str.lower() on the letters the model uses
LowerChar(c) ==
    CASE c = "T" -> "t" [] c = "R" -> "r" [] c = "U" -> "u" [] c = "E" -> "e"
      [] c = "C" -> "c" [] c = "F" -> "f" [] c = "A" -> "a" [] c = "L" -> "l"
      [] c = "S" -> "s" [] OTHER -> c

lower(s) == [i \in DOMAIN s |-> LowerChar(s[i])]

\* the text has a character that is no blank
HasWord(s) == \E i \in DOMAIN s : s[i] # " "

\* positions where a word of s starts and ends
WordStarts(s) == {i \in DOMAIN s : s[i] # " " /\ (i = 1 \/ s[i - 1] = " ")}
WordEnds(s) == {i \in DOMAIN s : s[i] # " " /\ (i = Len(s) \/ s[i + 1] = " ")}

\* the k-th smallest member of a set of positions
Nth(S, k) == CHOOSE i \in S : Cardinality({j \in S : j < i}) = k - 1

\* str.strip(): the text without its leading and trailing blanks
strip(s) ==
    IF ~HasWord(s) THEN <<>>
    ELSE SubSeq(s, Nth(WordStarts(s), 1), Nth(WordEnds(s), Cardinality(WordEnds(s))))

\* str.split(): the whitespace-separated words of s, in order
split(s) ==
    [k \in 1..Cardinality(WordStarts(s)) |->
        SubSeq(s, Nth(WordStarts(s), k), Nth(WordEnds(s), k))]

\* the number a text of digits denotes, read up to its n-th digit
RECURSIVE DecimalPrefix(_, _)
DecimalPrefix(ds, n) ==
    IF n = 0 THEN 0 ELSE 10 * DecimalPrefix(ds, n - 1) + DigitVal(ds[n])

DecimalValue(ds) == DecimalPrefix(ds, Len(ds))

AllDigits(ds) == ds # <<>> /\ \A i \in DOMAIN ds : ds[i] \in Digits

\* the text is a decimal literal: an optional sign and at least one digit
IsNumeral(w) ==
    IF w # <<>> /\ Head(w) \in {"-", "+"} THEN AllDigits(Tail(w)) ELSE AllDigits(w)

NumeralValue(w) ==
    IF Head(w) = "-" THEN 0 - DecimalValue(Tail(w))
    ELSE IF Head(w) = "+" THEN DecimalValue(Tail(w))
    ELSE DecimalValue(w)

\* a value or the exception that was raised instead ("" = none)
Return(v) == [exc |-> "", val |-> v]
Raise(e) == [exc |-> e, val |-> 0]

\* float(text): surrounding whitespace is ignored, anything else that is not
\* a numeral raises ValueError
float(s) ==
    IF IsNumeral(strip(s)) THEN Return(NumeralValue(strip(s))) ELSE Raise("ValueError")

\* int(x): the default 587 is already a number, text is converted like float
int(x) ==
    IF IsNumeral(strip(x)) THEN Return(NumeralValue(strip(x))) ELSE Raise("ValueError")

parse_float(value, default) ==
    IF value = None THEN Raise("AttributeError")
    ELSE IF split(strip(value)) = <<>> THEN Raise("IndexError")
    ELSE IF float(split(strip(value))[1]).exc = "ValueError" THEN Return(default)
    ELSE float(split(strip(value))[1])

(***************************************************************************)
(* Configuration: the .env file and the process environment.               *)
(***************************************************************************)
Keys ==
    {"ENABLE_ALERTS", "HEAT_WAVE_THRESHOLD", "COLD_WAVE_THRESHOLD", "SMTP_SERVER",
     "SMTP_PORT", "ALERT_EMAIL_SENDER", "ALERT_EMAIL_PASSWORD", "ALERT_EMAIL_RECIPIENT"}

\* texts that occur as configured values
S_true == <<"t", "r", "u", "e">>
S_True == <<"T", "r", "u", "e">>
S_false == <<"f", "a", "l", "s", "e">>
S_35 == <<"3", "5">>
S_15C == <<"1", "5", " ", "C">>
S_0 == <<"0">>
S_587 == <<"5", "8", "7">>
S_host == <<"h">>
S_addr == <<"a">>

\* os.getenv(key, default)
getenv(env, key, default) == IF env[key] = None THEN default ELSE env[key]

\* load_dotenv(override): every variable the file sets is copied into the
\* process environment; without override only where the process has none.
\* A variable the file does not set keeps its value in the process.
load_dotenv(file, env, override) ==
    [k \in Keys |->
        IF file[k] # None /\ (override \/ env[k] = None) THEN file[k] ELSE env[k]]

\* a variant of AlertsEnabled: a flag that is not set counts as on
AlertsEnabledUnsetOn(env) == lower(getenv(env, "ENABLE_ALERTS", S_true)) = S_true

\* os.getenv("ENABLE_ALERTS", "false").lower() == "true"
AlertsEnabled(env) == lower(getenv(env, "ENABLE_ALERTS", S_false)) = S_true

\* the dict reload_env returns, from the environment after load_dotenv; its
\* entries are evaluated in order, and the first exception leaves the function
reload_env(env) ==
    LET port == IF env["SMTP_PORT"] = None THEN Return(587) ELSE int(env["SMTP_PORT"])
        heat == parse_float(env["HEAT_WAVE_THRESHOLD"], 35)
        cold == parse_float(env["COLD_WAVE_THRESHOLD"], 0)
    IN  IF port.exc # "" THEN Raise(port.exc)
        ELSE IF heat.exc # "" THEN Raise(heat.exc)
        ELSE IF cold.exc # "" THEN Raise(cold.exc)
        ELSE Return([SMTP_SERVER |-> getenv(env, "SMTP_SERVER", S_host),
                     SMTP_PORT |-> port.val,
                     EMAIL_SENDER |-> env["ALERT_EMAIL_SENDER"],
                     EMAIL_PASSWORD |-> env["ALERT_EMAIL_PASSWORD"],
                     EMAIL_RECIPIENT |-> env["ALERT_EMAIL_RECIPIENT"],
                     HEAT_THRESHOLD |-> heat.val,
                     COLD_THRESHOLD |-> cold.val])

\* the module-level configuration (lines 14 to 37) can be evaluated: the
\* process gets past its import
ImportSucceeds(env) ==
    /\ (env["SMTP_PORT"] = None \/ int(env["SMTP_PORT"]).exc = "")
    /\ parse_float(env["HEAT_WAVE_THRESHOLD"], 35).exc = ""
    /\ parse_float(env["COLD_WAVE_THRESHOLD"], 0).exc = ""

(***************************************************************************)
(* Readings, batches and alerts.                                           *)
(***************************************************************************)
CITIES ==
    <<"London", "New York", "Tokyo", "Sydney", "Cairo", "Tunis", "Sousse",
      "Medenine", "Moscow", "Beijing">>

\* the locations one cycle of the model fetches
Cities == SubSeq(CITIES, 1, NumCities)

\* temperatures the weather API reports in the pipeline model
Temps == {36}

\* a response of the weather API: a complete payload, or one of the failures
\* (timeout, non-2xx status, JSON without a required key)
FailureKinds == {"timeout", "http_error", "malformed"}

Responses(t) ==
    [kind : {"ok"}, temp : Temps, dt : {t}]
        \cup [kind : FailureKinds, temp : {0}, dt : {0}]

\* the record fetch_weather_data appends for a complete payload (the seven
\* further fields are copied from the payload like temperature is)
Reading(city, data) == [city |-> city, timestamp |-> data.dt, temperature |-> data.temp]

\* weather_df[weather_df['temperature'] >= threshold], a variant of heat_wave
heat_wave_inclusive(weather_df, settings) ==
    SelectSeq(weather_df, LAMBDA r : r.temperature >= settings.HEAT_THRESHOLD)

\* weather_df[weather_df['temperature'] > settings["HEAT_THRESHOLD"]]
heat_wave(weather_df, settings) ==
    SelectSeq(weather_df, LAMBDA r : r.temperature > settings.HEAT_THRESHOLD)

\* weather_df[weather_df['temperature'] < settings["COLD_THRESHOLD"]]
cold_wave(weather_df, settings) ==
    SelectSeq(weather_df, LAMBDA r : r.temperature < settings.COLD_THRESHOLD)

\* heat_wave['city'].tolist()
city_list(df) == [i \in DOMAIN df |-> df[i].city]

\* the alerts list of check_alerts: the heat alert first, then the cold alert
alerts(weather_df, settings) ==
    (IF heat_wave(weather_df, settings) # <<>>
        THEN <<[type |-> "heat", cities |-> city_list(heat_wave(weather_df, settings)),
                threshold |-> settings.HEAT_THRESHOLD]>>
        ELSE <<>>)
    \o
    (IF cold_wave(weather_df, settings) # <<>>
        THEN <<[type |-> "cold", cities |-> city_list(cold_wave(weather_df, settings)),
                threshold |-> settings.COLD_THRESHOLD]>>
        ELSE <<>>)

\* what the SMTP session of one email does
SmtpOutcomes == {"sent", "connect_failed", "login_failed"}

\* the SMTP outcomes drawn in the pipeline model
PipelineSmtp == {"sent", "connect_failed"}

\* "not settings[...]": the value is None or the empty text
Falsy(v) == v = None \/ v = <<>>

\* every way the SMTP session of one email can go (lines 146 to 149): sent, or
\* an error connecting, in STARTTLS, logging in or sending
NotifyOutcomes == SmtpOutcomes \cup {"starttls_failed", "send_failed"}

\* a variant of send_email_alert_catches: the except clause names the errors of
\* the SMTP dialogue only, and a refused connection is none of them
send_email_alert_catches_smtp(smtp) == smtp # "connect_failed"

\* send_email_alert, line 151: "except Exception" catches whatever the session raises
send_email_alert_catches(smtp) == TRUE

\* a variant of send_email_alert: only the sender and the password are tested
send_email_alert_unchecked_recipient(settings, alert, smtp) ==
    IF Falsy(settings.EMAIL_SENDER) \/ Falsy(settings.EMAIL_PASSWORD)
        THEN [type |-> alert.type, result |-> "not_configured", connected |-> FALSE,
              exc |-> ""]
        ELSE [type |-> alert.type, result |-> smtp, connected |-> TRUE,
              exc |-> IF smtp = "sent" \/ send_email_alert_catches(smtp)
                        THEN "" ELSE "OSError"]

\* send_email_alert(settings, subject, body): the outcome of one alert, with
\* smtp what the SMTP session does if it is opened; exc is the error that
\* leaves the function, "" when none does
send_email_alert(settings, alert, smtp) ==
    IF Falsy(settings.EMAIL_SENDER) \/ Falsy(settings.EMAIL_PASSWORD)
            \/ Falsy(settings.EMAIL_RECIPIENT)
        THEN [type |-> alert.type, result |-> "not_configured", connected |-> FALSE,
              exc |-> ""]
        ELSE [type |-> alert.type, result |-> smtp, connected |-> TRUE,
              exc |-> IF smtp = "sent" \/ send_email_alert_catches(smtp)
                        THEN "" ELSE "OSError"]

(***************************************************************************)
(* State.                                                                  *)
(***************************************************************************)
VARIABLES
    dotenv,      \* the .env file: variable -> text, None where it sets none
    environ,     \* os.environ of the process
    pc,          \* where the process is: "import", "main", "fetch", "delay",
                 \* "save", "train", "alerts", "returned", "poll", "sleep",
                 \* "reloaded", or ended: "exit" (interrupt), "crashed" (traceback)
    due_in,      \* polls until the scheduled job is due; NoJob before it is registered
    now,         \* the wall-clock minute, counted in sleeps of main's loop
    cycles,      \* calls of run_pipeline so far
    running,     \* calls of run_pipeline that have not returned
    overran,     \* the cycle that runs or has just returned outlasted the period
    outcome,     \* how the last run_pipeline ended: "none", "Success", "NoData", "Failed"
    idx,         \* fetch_weather_data: position in CITIES of the next request
    records,     \* fetch_weather_data: records; afterwards weather_df
    failed,      \* locations whose response in this cycle was a failure
    requested,   \* locations requested in this cycle, in order
    lastCall,    \* last of "request" / "sleep" in this cycle, "none" before both
    saved,       \* save_data in this cycle: "no", "ok", "failed"
    trained,     \* save_training_data in this cycle: "no", "ok", "failed"
    evaluated,   \* check_alerts built its alerts list in this cycle
    events,      \* the alerts list of this cycle
    settings,    \* what reload_env returned or raised in this cycle
    mails,       \* send_email_alert calls of this cycle and their outcomes
    historical,  \* weather_data/historical.parquet
    snapshots,   \* weather_data/weather_<minute>.parquet: minute -> rows
    training,    \* weather_data/training_dataset.csv
    persisted,   \* the batches save_data has returned for, in order
    ctime,       \* of the .parquet files under weather_data/: the one written
                 \* last and the one created last, each with its minute
    dashboard_df \* dashboard.py: what load_latest_data returned last

sched == <<pc, due_in, now, cycles, running, overran, outcome>>
fetchv == <<idx, records, failed, requested, lastCall>>
stepv == <<saved, trained, evaluated, events, settings, mails>>
files == <<historical, snapshots, training, persisted, ctime, dashboard_df>>
config == <<dotenv, environ>>
vars == <<config, sched, fetchv, stepv, files>>

NoJob == 0 - 1

NoFile == [exists |-> FALSE, rows |-> <<>>]

\* weather_data/historical.parquet and weather_data/weather_<minute>.parquet
HistoricalPath == [name |-> "historical", minute |-> 0]
SnapshotPath(minute) == [name |-> "weather", minute |-> minute]

\* the dashboard has not called load_latest_data
NotLoaded == [df |-> <<>>, message |-> "unread"]

\* no .parquet file has been written
NoParquet == [changed |-> [path |-> HistoricalPath, at |-> NoJob],
              created |-> [path |-> HistoricalPath, at |-> NoJob]]

\* the first row of the training corpus
HeaderRow == [header |-> TRUE, city |-> "city", timestamp |-> 0, temperature |-> 0]

\* writer.writerow([row['city'], row['timestamp'], row['temperature']])
TrainingRow(r) ==
    [header |-> FALSE, city |-> r.city, timestamp |-> r.timestamp,
     temperature |-> r.temperature]

NoEnv == [k \in Keys |-> None]

\* reload_env has not been called
NoSettings == Return(0)

\* .env files the process is started with in the pipeline model
InitFiles ==
    {[k \in Keys |->
        CASE k = "ENABLE_ALERTS" -> e
          [] k = "HEAT_WAVE_THRESHOLD" -> S_35
          [] k = "COLD_WAVE_THRESHOLD" -> S_0
          [] k \in {"ALERT_EMAIL_SENDER", "ALERT_EMAIL_PASSWORD", "ALERT_EMAIL_RECIPIENT"}
                -> S_addr
          [] OTHER -> None] : e \in {S_true, S_false}}

\* what the operator writes into the .env file while the process runs
EditValues ==
    [k \in Keys |->
        CASE k = "ENABLE_ALERTS" -> {S_true, S_false}
          [] k = "HEAT_WAVE_THRESHOLD" -> {S_35, <<>>}
          [] OTHER -> {}]

\* the locals of a cycle before it has done anything
FreshCycle ==
    /\ idx = 1 /\ records = <<>> /\ failed = {} /\ requested = <<>>
    /\ lastCall = "none" /\ saved = "no" /\ trained = "no"
    /\ evaluated = FALSE /\ events = <<>> /\ settings = NoSettings /\ mails = <<>>

FreshCycle1 ==
    /\ idx' = 1 /\ records' = <<>> /\ failed' = {} /\ requested' = <<>>
    /\ lastCall' = "none" /\ saved' = "no" /\ trained' = "no"
    /\ evaluated' = FALSE /\ events' = <<>> /\ settings' = NoSettings /\ mails' = <<>>

\* the process after its import: load_dotenv() has filled the environment
\* and the module-level configuration has been parsed
InitWith(fileset) ==
    /\ dotenv \in fileset
    /\ environ = load_dotenv(dotenv, NoEnv, FALSE)
    /\ ImportSucceeds(environ)
    /\ pc = "main" /\ due_in = NoJob /\ now = 0 /\ cycles = 0 /\ running = 0
    /\ overran = FALSE /\ outcome = "none"
    /\ FreshCycle
    /\ historical = NoFile /\ snapshots = << >> /\ training = NoFile
    /\ persisted = <<>> /\ ctime = NoParquet /\ dashboard_df = NotLoaded

Init == InitWith(InitFiles)

(***************************************************************************)
(* run_pipeline, step by step.                                             *)
(***************************************************************************)
\* a variant of run_pipeline_catches: the except clause names the errors of
\* the fetch and of value conversion only
run_pipeline_catches_some(e) == e \in {"RequestException", "ValueError"}

\* run_pipeline, line 217: "except Exception" catches every error a step raises
run_pipeline_catches(e) == e \in {"OSError", "ValueError", "IndexError", "AttributeError"}

\* run_pipeline is left by an exception e: caught and reported as a failed
\* cycle, or passed on to main, which ends the process with a traceback
Raised(e) ==
    /\ running' = running - 1
    /\ IF run_pipeline_catches(e)
         THEN pc' = "returned" /\ outcome' = "Failed"
         ELSE pc' = "crashed" /\ outcome' = "none"

\* run_pipeline is entered (lines 192 to 198)
StartCycle ==
    /\ cycles < MaxCycles
    /\ cycles' = cycles + 1
    /\ running' = running + 1
    /\ overran' = FALSE
    /\ outcome' = "none"
    /\ pc' = "fetch"
    /\ FreshCycle1

\* main, line 224: the initial run, before any job is scheduled
main_initial_run ==
    /\ pc = "main"
    /\ StartCycle
    /\ UNCHANGED <<due_in, now, config, files>>

\* a variant of NextCity: run_pipeline goes on to save_data whatever the batch
NextCity_untested(recs) ==
    /\ idx' = idx + 1
    /\ pc' = (IF idx < NumCities THEN "fetch" ELSE "save")
    /\ UNCHANGED <<outcome, running>>

\* the for loop of fetch_weather_data moves on from CITIES[idx]; after the
\* last location run_pipeline tests weather_df.empty (lines 199, 215, 216)
NextCity(recs) ==
    /\ idx' = idx + 1
    /\ IF idx < NumCities
         THEN pc' = "fetch" /\ UNCHANGED <<outcome, running>>
         ELSE IF recs # <<>>
                THEN pc' = "save" /\ UNCHANGED <<outcome, running>>
                ELSE pc' = "returned" /\ outcome' = "NoData" /\ running' = running - 1

\* a variant of http_get: a payload without a required key leaves a partial
\* record in the batch
http_get_partial(resp) ==
    /\ pc = "fetch"
    /\ requested' = Append(requested, Cities[idx])
    /\ lastCall' = "request"
    /\ failed' = IF resp.kind = "ok" THEN failed ELSE failed \cup {Cities[idx]}
    /\ IF resp.kind \in {"ok", "malformed"}
         THEN /\ records' = Append(records, Reading(Cities[idx], resp))
              /\ pc' = "delay"
              /\ UNCHANGED <<idx, outcome, running>>
         ELSE /\ UNCHANGED records
              /\ NextCity(records)
    /\ UNCHANGED <<config, files, stepv, due_in, now, cycles, overran>>

\* a variant of http_get: the error of a failed request is not caught in the
\* loop and leaves fetch_weather_data
http_get_raises(resp) ==
    /\ pc = "fetch"
    /\ requested' = Append(requested, Cities[idx])
    /\ lastCall' = "request"
    /\ failed' = IF resp.kind = "ok" THEN failed ELSE failed \cup {Cities[idx]}
    /\ IF resp.kind = "ok"
         THEN /\ records' = Append(records, Reading(Cities[idx], resp))
              /\ pc' = "delay"
              /\ UNCHANGED <<idx, outcome, running>>
         ELSE /\ UNCHANGED <<records, idx>>
              /\ Raised("OSError")
    /\ UNCHANGED <<config, files, stepv, due_in, now, cycles, overran>>

\* a variant of http_get: a location whose request fails is requested once more
http_get_retry(resp) ==
    /\ pc = "fetch"
    /\ requested' = Append(requested, Cities[idx])
    /\ lastCall' = "request"
    /\ failed' = IF resp.kind = "ok" THEN failed ELSE failed \cup {Cities[idx]}
    /\ IF resp.kind = "ok"
         THEN /\ records' = Append(records, Reading(Cities[idx], resp))
              /\ pc' = "delay"
              /\ UNCHANGED <<idx, outcome, running>>
         ELSE IF Cities[idx] \in failed
                THEN /\ UNCHANGED records
                     /\ NextCity(records)
                ELSE UNCHANGED <<records, idx, pc, outcome, running>>
    /\ UNCHANGED <<config, files, stepv, due_in, now, cycles, overran>>

\* fetch_weather_data, lines 56 to 75 and 77 to 78: the request for CITIES[idx]
\* and what the loop body does with the response
http_get(resp) ==
    /\ pc = "fetch"
    /\ requested' = Append(requested, Cities[idx])
    /\ lastCall' = "request"
    /\ failed' = IF resp.kind = "ok" THEN failed ELSE failed \cup {Cities[idx]}
    /\ IF resp.kind = "ok"
         THEN /\ records' = Append(records, Reading(Cities[idx], resp))
              /\ pc' = "delay"
              /\ UNCHANGED <<idx, outcome, running>>
         ELSE /\ UNCHANGED records
              /\ NextCity(records)
    /\ UNCHANGED <<config, files, stepv, due_in, now, cycles, overran>>

\* fetch_weather_data, line 76: time.sleep(1) after a record was appended
delay ==
    /\ pc = "delay"
    /\ lastCall' = "sleep"
    /\ NextCity(records)
    /\ UNCHANGED <<records, failed, requested>>
    /\ UNCHANGED <<config, files, stepv, due_in, now, cycles, overran>>

\* a variant of updated_df: the batch replaces the dataset
updated_df_replace(historical_df, df) == df

\* save_data, line 111: pd.concat([historical_df, df])
updated_df(historical_df, df) == historical_df \o df

\* a variant of to_parquet_snapshot: a file that exists is left as it is
to_parquet_snapshot_keep(dir, minute, df) == dir @@ (minute :> df)

\* save_data, lines 101 to 105: df.to_parquet on weather_<minute>.parquet,
\* which replaces a file of that name
to_parquet_snapshot(dir, minute, df) == (minute :> df) @@ dir

\* where save_data raises: nowhere, in os.makedirs, writing the snapshot,
\* reading the historical dataset, writing the historical dataset
SaveFaults == {"none", "makedirs", "snapshot", "read", "write"}

\* a variant of save_data_raises: errors of the historical update are swallowed
save_data_raises_swallowed(fault) == fault \in {"makedirs", "snapshot"}

\* save_data leaves by an exception
save_data_raises(fault) == fault # "none"

\* the order in which save_data writes: the snapshot at line 105, then the
\* historical dataset at line 112 or 114. A file that is written again keeps
\* its time of creation
written(fault, times) ==
    LET snap == [path |-> SnapshotPath(now), at |-> now]
        hist == [path |-> HistoricalPath, at |-> now]
        after_snapshot ==
            [changed |-> snap,
             created |-> IF now \in DOMAIN snapshots THEN times.created ELSE snap]
    IN  CASE fault \in {"makedirs", "snapshot"} -> times
          [] fault \in {"read", "write"} -> after_snapshot
          [] OTHER ->
               [changed |-> hist,
                created |-> IF historical.exists THEN after_snapshot.created ELSE hist]

\* save_data (lines 98 to 116) and the except clause of run_pipeline; a write
\* that raises leaves its file as it was
save_data(fault) ==
    /\ pc = "save"
    /\ fault = "read" => historical.exists
    /\ snapshots' =
         IF fault \in {"makedirs", "snapshot"} THEN snapshots
         ELSE to_parquet_snapshot(snapshots, now, records)
    /\ historical' =
         IF fault # "none" THEN historical
         ELSE IF historical.exists
                THEN [exists |-> TRUE, rows |-> updated_df(historical.rows, records)]
                ELSE [exists |-> TRUE, rows |-> records]
    /\ persisted' = IF fault = "none" THEN Append(persisted, records) ELSE persisted
    /\ ctime' = written(fault, ctime)
    /\ saved' = IF fault = "none" THEN "ok" ELSE "failed"
    /\ IF save_data_raises(fault)
         THEN Raised("OSError")
         ELSE pc' = "train" /\ UNCHANGED <<outcome, running>>
    /\ UNCHANGED <<training, dashboard_df, trained, evaluated, events, settings, mails>>
    /\ UNCHANGED <<config, fetchv, due_in, now, cycles, overran>>

\* where save_training_data raises: nowhere, in open (the file is not touched),
\* or after open in writing or flushing (open(..., 'a') has created the file)
TrainFaults == {"none", "open", "write"}

\* the faults drawn in the pipeline model
PipelineTrainFaults == {"none", "open"}

\* what save_training_data writes (lines 89 to 92): the header when the file
\* did not exist at line 85, then one row per reading
training_rows(file_exists, df) ==
    (IF file_exists THEN <<>> ELSE <<HeaderRow>>) \o [i \in DOMAIN df |-> TrainingRow(df[i])]

\* a variant of save_training_data: an error of the append is not caught in
\* the function and reaches the except clause of run_pipeline
save_training_data_raising(fault, n) ==
    /\ pc = "train"
    /\ n <= Len(records)
    /\ fault # "write" => n = 0
    /\ training' =
         CASE fault = "none" ->
                [exists |-> TRUE,
                 rows |-> training.rows \o training_rows(training.exists, records)]
           [] fault = "open" -> training
           [] fault = "write" ->
                [exists |-> TRUE,
                 rows |-> training.rows
                            \o SubSeq(training_rows(training.exists, records), 1, n)]
    /\ trained' = IF fault = "none" THEN "ok" ELSE "failed"
    /\ IF fault = "none"
         THEN pc' = "alerts" /\ UNCHANGED <<outcome, running>>
         ELSE Raised("OSError")
    /\ UNCHANGED <<historical, snapshots, persisted, ctime, dashboard_df>>
    /\ UNCHANGED <<saved, evaluated, events, settings, mails>>
    /\ UNCHANGED <<config, fetchv, due_in, now, cycles, overran>>

\* save_training_data (lines 81 to 96): the rows are appended, after the header
\* when the file did not exist; an error is caught and reported as False.
\* When writing raises, the first n of the rows have reached the file
save_training_data(fault, n) ==
    /\ pc = "train"
    /\ n <= Len(records)
    /\ fault # "write" => n = 0
    /\ training' =
         CASE fault = "none" ->
                [exists |-> TRUE,
                 rows |-> training.rows \o training_rows(training.exists, records)]
           [] fault = "open" -> training
           [] fault = "write" ->
                [exists |-> TRUE,
                 rows |-> training.rows
                            \o SubSeq(training_rows(training.exists, records), 1, n)]
    /\ trained' = IF fault = "none" THEN "ok" ELSE "failed"
    /\ pc' = "alerts"
    /\ UNCHANGED <<historical, snapshots, persisted, ctime, dashboard_df>>
    /\ UNCHANGED <<saved, evaluated, events, settings, mails>>
    /\ UNCHANGED <<config, fetchv, due_in, now, cycles, running, overran, outcome>>

\* the alert step when alerting is off: nothing is evaluated or reloaded
NotEvaluated(env) ==
    [exc |-> "", environ |-> env, evaluated |-> FALSE, settings |-> NoSettings,
     events |-> <<>>, mails |-> <<>>]

\* the for loop of check_alerts (lines 182 to 188): the calls made, up to and
\* including the first one that raises
sent_alerts(calls) ==
    IF \E i \in DOMAIN calls : calls[i].exc # ""
      THEN SubSeq(calls, 1, CHOOSE i \in DOMAIN calls :
                               /\ calls[i].exc # ""
                               /\ \A j \in 1..(i - 1) : calls[j].exc = "")
      ELSE calls

\* a variant of check_alerts: the batch is compared with the thresholds the
\* process had in its environment before the reload
check_alerts_stale_thresholds(weather_df, file, env, smtp) ==
    IF ~AlertsEnabled(env)
      THEN NotEvaluated(env)
      ELSE LET loaded == load_dotenv(file, env, TRUE)
               st == reload_env(loaded)
               found == alerts(weather_df, reload_env(env).val)
               calls == [i \in DOMAIN found |->
                           send_email_alert(st.val, found[i], smtp[found[i].type])]
               made == sent_alerts(calls)
           IN  IF st.exc # ""
                 THEN [exc |-> st.exc, environ |-> loaded, evaluated |-> FALSE,
                       settings |-> st, events |-> <<>>, mails |-> <<>>]
                 ELSE [exc |-> IF made = <<>> THEN "" ELSE made[Len(made)].exc,
                       environ |-> loaded, evaluated |-> TRUE,
                       settings |-> st, events |-> found, mails |-> made]

\* check_alerts (lines 154 to 190) on weather_df, with the .env file and the
\* process environment it finds and what each SMTP session does
check_alerts(weather_df, file, env, smtp) ==
    IF ~AlertsEnabled(env)
      THEN NotEvaluated(env)
      ELSE LET loaded == load_dotenv(file, env, TRUE)
               st == reload_env(loaded)
               found == alerts(weather_df, st.val)
               calls == [i \in DOMAIN found |->
                           send_email_alert(st.val, found[i], smtp[found[i].type])]
               made == sent_alerts(calls)
           IN  IF st.exc # ""
                 THEN [exc |-> st.exc, environ |-> loaded, evaluated |-> FALSE,
                       settings |-> st, events |-> <<>>, mails |-> <<>>]
                 ELSE [exc |-> IF made = <<>> THEN "" ELSE made[Len(made)].exc,
                       environ |-> loaded, evaluated |-> TRUE,
                       settings |-> st, events |-> found, mails |-> made]

\* a variant of alert_result: an alert is raised only when the batch persisted
\* before this one would not have raised it
alert_result_rising_edge(smtp) ==
    IF AlertsEnabled(environ)
      THEN LET now_ == check_alerts(records, dotenv, environ, smtp)
               before == IF Len(persisted) > 1
                           THEN check_alerts(persisted[Len(persisted) - 1], dotenv,
                                             environ, smtp).events
                           ELSE <<>>
               fresh == SelectSeq(now_.events,
                                  LAMBDA e : \A j \in DOMAIN before : before[j].type # e.type)
           IN  [now_ EXCEPT !.events = fresh,
                            !.mails = SelectSeq(now_.mails,
                                        LAMBDA m : \E j \in DOMAIN fresh : fresh[j].type = m.type)]
      ELSE NotEvaluated(environ)

\* run_pipeline, lines 209 and 210: check_alerts is called when the gate is on
alert_result(smtp) ==
    IF AlertsEnabled(environ)
      THEN check_alerts(records, dotenv, environ, smtp)
      ELSE NotEvaluated(environ)

\* run_pipeline, lines 208 to 214 and 217 to 219: the alert step and the return
alert_step(smtp) ==
    /\ pc = "alerts"
    /\ environ' = alert_result(smtp).environ
    /\ evaluated' = alert_result(smtp).evaluated
    /\ events' = alert_result(smtp).events
    /\ mails' = alert_result(smtp).mails
    /\ settings' = alert_result(smtp).settings
    /\ IF alert_result(smtp).exc # ""
         THEN Raised(alert_result(smtp).exc)
         ELSE pc' = "returned" /\ outcome' = "Success" /\ running' = running - 1
    /\ UNCHANGED <<dotenv, files, fetchv, saved, trained, due_in, now, cycles, overran>>

(***************************************************************************)
(* main: the scheduling loop.                                              *)
(***************************************************************************)
InCycle == pc \in {"fetch", "delay", "save", "train", "alerts"}

Idle == pc \in {"poll", "sleep"}

\* a variant of schedule_job: the job is registered as due at once
schedule_job_due_now ==
    /\ pc = "returned"
    /\ due_in = NoJob
    /\ due_in' = 0
    /\ pc' = "poll"
    /\ FreshCycle1
    /\ overran' = FALSE
    /\ UNCHANGED <<config, files, now, cycles, running, outcome>>

\* main, lines 227 to 229, after the initial run has returned: the hourly job
\* is registered, due one period from now; the locals of the run are gone
schedule_job ==
    /\ pc = "returned"
    /\ due_in = NoJob
    /\ due_in' = IntervalPolls
    /\ pc' = "poll"
    /\ FreshCycle1
    /\ overran' = FALSE
    /\ UNCHANGED <<config, files, now, cycles, running, outcome>>

\* the job has returned inside schedule.run_pending: its next run is set one
\* period from now, and main goes on to time.sleep(60)
job_done ==
    /\ pc = "returned"
    /\ due_in # NoJob
    /\ due_in' = IntervalPolls
    /\ pc' = "sleep"
    /\ FreshCycle1
    /\ overran' = FALSE
    /\ UNCHANGED <<config, files, now, cycles, running, outcome>>

\* a variant of run_pending: the job is started from a timer thread whenever it
\* is due, wherever main is
run_pending_threaded ==
    \/ /\ pc \notin {"main", "exit", "crashed"}
       /\ due_in = 0
       /\ cycles <= MaxCycles
       /\ cycles' = cycles + 1
       /\ running' = running + 1
       /\ overran' = FALSE
       /\ outcome' = "none"
       /\ pc' = "fetch"
       /\ FreshCycle1
       /\ UNCHANGED <<due_in, now, config, files>>
    \/ /\ pc = "poll"
       /\ due_in # 0
       /\ pc' = "sleep"
       /\ UNCHANGED <<cycles, running, overran, outcome, fetchv, stepv>>
       /\ UNCHANGED <<due_in, now, config, files>>

\* main, line 231: schedule.run_pending() runs the job, in this thread, when
\* it is due
run_pending ==
    /\ pc = "poll"
    /\ IF due_in = 0
         THEN StartCycle
         ELSE /\ pc' = "sleep"
              /\ UNCHANGED <<cycles, running, overran, outcome, fetchv, stepv>>
    /\ UNCHANGED <<due_in, now, config, files>>

\* main, line 232: time.sleep(60)
sleep ==
    /\ pc = "sleep"
    /\ due_in > 0
    /\ now' = now + 1
    /\ due_in' = due_in - 1
    /\ pc' = "poll"
    /\ UNCHANGED <<config, files, fetchv, stepv, cycles, running, overran, outcome>>

\* the running cycle outlasts the schedule period (slow responses, timeouts).
\* The job's next run is set only when it returns, so the scheduler reads
\* nothing that the elapsed time changes; now counts the minutes main sleeps.
slow_cycle ==
    /\ pc = "fetch"
    /\ ~overran
    /\ overran' = TRUE
    /\ UNCHANGED <<config, files, fetchv, stepv, pc, due_in, now, cycles, running, outcome>>

\* the operator edits one variable of the .env file, before the first cycle
\* or while main sleeps (the process reads the file only in reload_env, so an
\* edit during a cycle reads like the same edit made in the sleep before it)
operator_edit(k, v) ==
    /\ pc \in {"main", "sleep"}
    /\ v # dotenv[k]
    /\ dotenv' = [dotenv EXCEPT ![k] = v]
    /\ UNCHANGED <<environ, sched, fetchv, stepv, files>>

\* Ctrl+C: the process ends where it is; its memory is gone, its files stay
interrupt ==
    /\ pc \notin {"exit", "crashed"}
    /\ pc' = "exit"
    /\ environ' = NoEnv
    /\ due_in' = NoJob
    /\ running' = 0
    /\ overran' = FALSE
    /\ outcome' = "none"
    /\ FreshCycle1
    /\ UNCHANGED <<dotenv, files, now, cycles>>

Next ==
    \/ main_initial_run
    \/ \E resp \in Responses(cycles) : http_get(resp)
    \/ delay
    \/ \E fault \in SaveFaults : save_data(fault)
    \/ \E fault \in PipelineTrainFaults : save_training_data(fault, 0)
    \/ \E smtp \in [{"heat", "cold"} -> PipelineSmtp] : alert_step(smtp)
    \/ schedule_job
    \/ job_done
    \/ run_pending
    \/ sleep
    \/ slow_cycle
    \/ \E k \in Keys : \E v \in EditValues[k] : operator_edit(k, v)
    \/ interrupt

Spec == Init /\ [][Next]_vars

\* the steps the process itself takes, the alert step apart; each one ends
\* (requests time out, sleeps return), so the process keeps taking them
\* until it is interrupted
ProcessStep ==
    \/ main_initial_run
    \/ \E resp \in Responses(cycles) : http_get(resp)
    \/ delay
    \/ \E fault \in SaveFaults : save_data(fault)
    \/ \E fault \in PipelineTrainFaults : save_training_data(fault, 0)
    \/ schedule_job
    \/ job_done
    \/ run_pending
    \/ sleep

\* the process keeps running.  The alert step is enabled exactly when
\* pc = "alerts" and every alert step leaves that place, so weak fairness of
\* the alert step is the same as []<>(pc # "alerts")
LiveSpec == Init /\ [][Next]_vars /\ WF_vars(ProcessStep) /\ []<>(pc # "alerts")

(***************************************************************************)
(* The files of weather_data over several runs of the program: alerting is  *)
(* off, every write can fail, and an interrupted process is started again. *)
(***************************************************************************)
\* the program is started again after it has ended; some time may have passed
restart(minutes) ==
    /\ pc \in {"exit", "crashed"}
    /\ cycles < MaxCycles
    /\ now + minutes <= MaxCycles
    /\ environ' = load_dotenv(dotenv, NoEnv, FALSE)
    /\ ImportSucceeds(environ')
    /\ pc' = "main"
    /\ now' = now + minutes
    /\ UNCHANGED <<dotenv, due_in, cycles, running, overran, outcome>>
    /\ UNCHANGED <<fetchv, stepv, files>>

FilesInit == InitWith({f \in InitFiles : f["ENABLE_ALERTS"] = S_false})

FilesNext ==
    \/ main_initial_run
    \/ \E resp \in Responses(cycles) : http_get(resp)
    \/ delay
    \/ \E fault \in SaveFaults : save_data(fault)
    \/ \E fault \in TrainFaults : \E n \in 0..NumCities : save_training_data(fault, n)
    \/ \E smtp \in [{"heat", "cold"} -> {"sent"}] : alert_step(smtp)
    \/ schedule_job
    \/ job_done
    \/ run_pending
    \/ sleep
    \/ ~InCycle /\ interrupt
    \/ \E minutes \in {0, 1} : restart(minutes)

SpecFiles == FilesInit /\ [][FilesNext]_vars

(***************************************************************************)
(* The dashboard, a process of its own, reads weather_data while the       *)
(* pipeline runs, ends and is started again.                               *)
(***************************************************************************)
\* os.path.getctime is the time of the last change of the file on POSIX
\* systems and the time of its creation on Windows
Platforms == {"posix", "windows"}

\* load_latest_data, line 35: glob.glob('weather_data/**/*.parquet',
\* recursive=True) lists the historical dataset with the snapshots
parquet_files ==
    (IF historical.exists THEN {HistoricalPath} ELSE {})
        \cup {SnapshotPath(m) : m \in DOMAIN snapshots}

\* load_latest_data, line 42: max(parquet_files, key=os.path.getctime)
latest_file(platform) ==
    IF platform = "posix" THEN ctime.changed ELSE ctime.created

\* load_latest_data, line 43: pd.read_parquet
read_parquet(path) ==
    IF path = HistoricalPath THEN historical.rows ELSE snapshots[path.minute]

\* where load_latest_data raises: nowhere, or in reading the file
LoadFaults == {"none", "read"}

\* load_latest_data (lines 31 to 52): the rows of the file with the greatest
\* getctime, each with the time of that file as last_updated; an empty frame
\* when there is no file or when an error is caught
load_latest_data(platform, fault) ==
    /\ dashboard_df' =
         IF parquet_files = {}
           THEN [df |-> <<>>, message |-> "warning"]
           ELSE IF fault # "none"
                  THEN [df |-> <<>>, message |-> "error"]
                  ELSE LET latest == latest_file(platform)
                           df == read_parquet(latest.path)
                       IN  [df |-> [i \in DOMAIN df |->
                                      [city |-> df[i].city,
                                       timestamp |-> df[i].timestamp,
                                       temperature |-> df[i].temperature,
                                       last_updated |-> latest.at]],
                            message |-> "none"]
    /\ UNCHANGED <<historical, snapshots, training, persisted, ctime>>
    /\ UNCHANGED <<config, sched, fetchv, stepv>>

DashboardNext ==
    \/ main_initial_run
    \/ \E resp \in Responses(cycles) : http_get(resp)
    \/ delay
    \/ \E fault \in SaveFaults : save_data(fault)
    \/ save_training_data("none", 0)
    \/ \E smtp \in [{"heat", "cold"} -> {"sent"}] : alert_step(smtp)
    \/ schedule_job
    \/ job_done
    \/ run_pending
    \/ sleep
    \/ ~InCycle /\ interrupt
    \/ \E minutes \in {0, 1} : restart(minutes)
    \/ \E platform \in Platforms : \E fault \in LoadFaults :
          load_latest_data(platform, fault)

SpecDashboard == FilesInit /\ [][DashboardNext]_vars

(***************************************************************************)
(* One cycle from the start of the process to its return, with every       *)
(* outcome of every step: responses, write faults, SMTP sessions.          *)
(***************************************************************************)
\* .env files with alerting on or off and the recipient set or not
CycleFiles ==
    {[k \in Keys |->
        CASE k = "ENABLE_ALERTS" -> e
          [] k = "HEAT_WAVE_THRESHOLD" -> S_35
          [] k = "COLD_WAVE_THRESHOLD" -> S_0
          [] k \in {"ALERT_EMAIL_SENDER", "ALERT_EMAIL_PASSWORD"} -> S_addr
          [] k = "ALERT_EMAIL_RECIPIENT" -> r
          [] OTHER -> None] :
        e \in {S_true, S_false}, r \in {S_addr, None}}

\* responses with a temperature above the heat or below the cold threshold,
\* and the failures
CycleResponses ==
    [kind : {"ok"}, temp : {0 - 1, 36}, dt : {1}]
        \cup [kind : FailureKinds, temp : {0}, dt : {0}]

CycleInit == InitWith(CycleFiles)

CycleNext ==
    \/ main_initial_run
    \/ \E resp \in CycleResponses : http_get(resp)
    \/ delay
    \/ \E fault \in SaveFaults : save_data(fault)
    \/ \E fault \in TrainFaults : \E n \in 0..NumCities : save_training_data(fault, n)
    \/ \E smtp \in [{"heat", "cold"} -> NotifyOutcomes] : alert_step(smtp)

SpecCycle == CycleInit /\ [][CycleNext]_vars

(***************************************************************************)
(* Cycle after cycle with alerting on and a configuration nobody edits.    *)
(***************************************************************************)
\* responses with a temperature below the cold or above the heat threshold,
\* stamped with the cycle they belong to, and the failures
RepeatResponses(t) ==
    [kind : {"ok"}, temp : {0 - 1, 36}, dt : {t}]
        \cup [kind : FailureKinds, temp : {0}, dt : {0}]

RepeatInit == InitWith({f \in InitFiles : f["ENABLE_ALERTS"] = S_true})

RepeatNext ==
    \/ main_initial_run
    \/ \E resp \in RepeatResponses(cycles) : http_get(resp)
    \/ delay
    \/ save_data("none")
    \/ save_training_data("none", 0)
    \/ \E smtp \in [{"heat", "cold"} -> PipelineSmtp] : alert_step(smtp)
    \/ schedule_job
    \/ job_done
    \/ run_pending
    \/ sleep

SpecRepeat == RepeatInit /\ [][RepeatNext]_vars

(***************************************************************************)
(* check_alerts on its own: the alert step of a cycle for every batch and   *)
(* configuration of a wider range than the pipeline model draws.           *)
(***************************************************************************)
AlertCities == SubSeq(CITIES, 1, NumAlertCities)

\* temperatures around the thresholds 0 and 35
AlertTemps == {0 - 1, 0, 20, 35, 36}

S_20 == <<"2", "0">>

\* the batch of a cycle in which the locations in sel answered, with
\* temperatures t
Batch(sel, t) ==
    SelectSeq([i \in 1..NumAlertCities |->
                  [city |-> AlertCities[i], timestamp |-> 1, temperature |-> t[i]]],
              LAMBDA r : r.city \in {AlertCities[i] : i \in sel})

AlertBatches ==
    {Batch(sel, t) : sel \in (SUBSET (1..NumAlertCities)) \ {{}},
                     t \in [1..NumAlertCities -> AlertTemps]}

\* .env files at the alert step
AlertFiles ==
    {[k \in Keys |->
        CASE k = "ENABLE_ALERTS" -> S_true
          [] k = "HEAT_WAVE_THRESHOLD" -> h
          [] k = "COLD_WAVE_THRESHOLD" -> c
          [] k \in {"ALERT_EMAIL_SENDER", "ALERT_EMAIL_PASSWORD"} -> S_addr
          [] k = "ALERT_EMAIL_RECIPIENT" -> r
          [] OTHER -> None] :
        h \in {S_35, S_15C}, c \in {S_0, S_20},
        r \in {S_addr, None}}

\* a first cycle that has fetched, saved and appended a batch and is about to
\* run its alert step; the process may have read another flag than the file
\* now holds
AlertInitWith(fileset, flags, batches) ==
    /\ dotenv \in fileset
    /\ \E e \in flags :
          environ = [dotenv EXCEPT !["ENABLE_ALERTS"] = e]
    /\ records \in batches
    /\ pc = "alerts" /\ due_in = NoJob /\ now = 0 /\ cycles = 1 /\ running = 1
    /\ overran = FALSE /\ outcome = "none"
    /\ idx = NumAlertCities + 1
    /\ failed = {AlertCities[i] : i \in 1..NumAlertCities} \ {records[i].city : i \in DOMAIN records}
    /\ requested = AlertCities
    /\ lastCall \in (IF AlertCities[NumAlertCities] \in failed THEN {"request"} ELSE {"sleep"})
    /\ saved = "ok" /\ trained = "ok"
    /\ evaluated = FALSE /\ events = <<>> /\ settings = NoSettings /\ mails = <<>>
    /\ historical = [exists |-> TRUE, rows |-> records]
    /\ snapshots = (0 :> records)
    /\ training = [exists |-> TRUE,
                   rows |-> <<HeaderRow>> \o [i \in DOMAIN records |-> TrainingRow(records[i])]]
    /\ persisted = <<records>>
    /\ ctime = [changed |-> [path |-> HistoricalPath, at |-> 0],
                created |-> [path |-> HistoricalPath, at |-> 0]]
    /\ dashboard_df = NotLoaded

AlertInit == AlertInitWith(AlertFiles, {None, S_true, S_True, S_false}, AlertBatches)

AlertNext == \E smtp \in [{"heat", "cold"} -> SmtpOutcomes] : alert_step(smtp)

SpecAlerts == AlertInit /\ [][AlertNext]_vars

(***************************************************************************)
(* check_alerts evaluated in one context and compared with its evaluation  *)
(* in every other context.                                                 *)
(***************************************************************************)
\* batches with temperatures between and above the heat thresholds 15 and 35
PureBatches ==
    {b \in AlertBatches : \A i \in DOMAIN b : b[i].temperature \in {20, 36}}

PureInit == AlertInitWith(AlertFiles, {None, S_true, S_True, S_false}, PureBatches)

PureNext == \E smtp \in [{"heat", "cold"} -> {"sent"}] : alert_step(smtp)

SpecPure == PureInit /\ [][PureNext]_vars

(***************************************************************************)
(* The notifications of check_alerts: the alert step with alerting on, for  *)
(* every way an SMTP session can go and every set of credentials.          *)
(***************************************************************************)
\* batches with temperatures above, between and below the thresholds 35 and 0
NotifyBatches ==
    {b \in AlertBatches : \A i \in DOMAIN b : b[i].temperature \in {0 - 1, 20, 36}}

\* .env files with each of the sender, password and recipient set, not set or
\* set to the empty text
NotifyFiles ==
    {[k \in Keys |->
        CASE k = "ENABLE_ALERTS" -> S_true
          [] k = "HEAT_WAVE_THRESHOLD" -> S_35
          [] k = "COLD_WAVE_THRESHOLD" -> S_0
          [] k = "ALERT_EMAIL_SENDER" -> f
          [] k = "ALERT_EMAIL_PASSWORD" -> w
          [] k = "ALERT_EMAIL_RECIPIENT" -> r
          [] OTHER -> None] :
        f \in {S_addr, None}, w \in {S_addr, None}, r \in {S_addr, None, <<>>}}

NotifyInit == AlertInitWith(NotifyFiles, {S_true, S_True}, NotifyBatches)

NotifyNext == \E smtp \in [{"heat", "cold"} -> NotifyOutcomes] : alert_step(smtp)

SpecNotify == NotifyInit /\ [][NotifyNext]_vars

(***************************************************************************)
(* Configuration parsing on its own: the import of the module and           *)
(* reload_env for raw texts of the numeric settings.                       *)
(***************************************************************************)
NumericKeys == {"HEAT_WAVE_THRESHOLD", "COLD_WAVE_THRESHOLD", "SMTP_PORT"}

Alphabet == {" ", "3", "5", "C"}

\* every text of at most MaxLen characters, and the variable not being set
RawTexts ==
    {None} \cup UNION {[1..n -> Alphabet] : n \in 0..MaxLen}

\* a .env file whose numeric settings all parse
BaseFile ==
    [k \in Keys |->
        CASE k = "ENABLE_ALERTS" -> S_true
          [] k = "HEAT_WAVE_THRESHOLD" -> S_35
          [] k = "COLD_WAVE_THRESHOLD" -> S_0
          [] k = "SMTP_PORT" -> S_587
          [] OTHER -> S_addr]

\* the base file with one numeric setting given any raw text
ConfigFiles == {[BaseFile EXCEPT ![k] = v] : k \in NumericKeys, v \in RawTexts}

\* the process is started: nothing of the module has run yet
ConfigInit ==
    /\ dotenv \in ConfigFiles
    /\ environ = NoEnv
    /\ pc = "import" /\ due_in = NoJob /\ now = 0 /\ cycles = 0 /\ running = 0
    /\ overran = FALSE /\ outcome = "none"
    /\ FreshCycle
    /\ historical = NoFile /\ snapshots = << >> /\ training = NoFile
    /\ persisted = <<>> /\ ctime = NoParquet /\ dashboard_df = NotLoaded

\* lines 14 to 37: load_dotenv() and the module-level configuration; an
\* exception here ends the process before main runs
import_module ==
    /\ pc = "import"
    /\ environ' = load_dotenv(dotenv, environ, FALSE)
    /\ pc' = IF ImportSucceeds(environ') THEN "main" ELSE "crashed"
    /\ UNCHANGED <<dotenv, due_in, now, cycles, running, overran, outcome>>
    /\ UNCHANGED <<fetchv, stepv, files>>

\* reload_env() called on the running process (line 160)
reload_env_call ==
    /\ pc = "main"
    /\ environ' = load_dotenv(dotenv, environ, TRUE)
    /\ settings' = reload_env(environ')
    /\ pc' = "reloaded"
    /\ UNCHANGED <<dotenv, due_in, now, cycles, running, overran, outcome>>
    /\ UNCHANGED <<fetchv, files, saved, trained, evaluated, events, mails>>

\* the operator rewrites one numeric setting of the file the process started with
ConfigNext ==
    \/ import_module
    \/ \E k \in NumericKeys : \E v \in RawTexts :
          environ = load_dotenv(dotenv, NoEnv, FALSE) /\ operator_edit(k, v)
    \/ reload_env_call

SpecConfig == ConfigInit /\ [][ConfigNext]_vars

(***************************************************************************)
(* Properties of the pipeline.                                             *)
(***************************************************************************)
RECURSIVE Flatten(_)
Flatten(batches) ==
    IF batches = <<>> THEN <<>> ELSE Head(batches) \o Flatten(Tail(batches))

\* run_pipeline has returned in the cycle
Returned == outcome \in {"Success", "Failed", "NoData"}

C2_BatchIsTheSuccesses ==
    (idx = NumCities + 1) =>
        /\ city_list(records) = SelectSeq(Cities, LAMBDA c : c \notin failed)
        /\ \A i \in DOMAIN records :
              /\ records[i].temperature \in Temps
              /\ records[i].timestamp = cycles

\* a fetch in which some location failed and some location did not
C2_Witness == pc = "save" /\ failed # {} /\ records # <<>>

\* C3: after save_data has raised in a cycle, the training corpus was not
\* appended to, no alert was evaluated, no email was sent and the cycle is
\* Failed; the training append happens only after save_data has returned
C3_PersistFailureAborts ==
    /\ saved = "failed" =>
          /\ trained = "no" /\ ~evaluated /\ events = <<>> /\ mails = <<>>
          /\ pc = "returned" /\ outcome = "Failed"
    /\ trained # "no" => saved = "ok"
    /\ (evaluated \/ mails # <<>>) => saved = "ok"

\* save_data raised after the snapshot was written
C3_Witness ==
    /\ saved = "failed" /\ outcome = "Failed"
    /\ DOMAIN snapshots # {} /\ ~historical.exists

\* C4: at most one cycle is in progress, and a cycle starts only when no
\* cycle is running and the one before it has returned
C4_CyclesSerialized ==
    /\ [](running <= 1)
    /\ [][cycles' = cycles + 1 =>
            /\ running = 0
            /\ ~InCycle
            /\ cycles > 0 => Returned]_vars

\* the scheduled job is running past its period, and alone
C4_Witness == cycles = 2 /\ InCycle /\ overran /\ due_in = 0 /\ running = 1

\* C5: no step's error ends the process, and after a cycle has returned,
\* in whatever way, main goes back to its loop and a further cycle starts,
\* unless the process is interrupted (or the model's last cycle has run)
C5_ProcessSurvives ==
    /\ [](pc # "crashed")
    /\ (pc = "returned") ~> (Idle \/ pc = "exit")
    /\ (pc = "returned" /\ cycles < MaxCycles) ~> (InCycle \/ pc = "exit")

\* main is back in its loop after a cycle in which save_data raised
C5_Witness == pc = "sleep" /\ outcome = "Failed" /\ historical = NoFile /\ cycles = 1

\* the flag a freshly started process would read from the .env file is on
\* the flag the process reads is off: not set, or a text other than "true"
\* in any letter case
FlagOff(env) == env["ENABLE_ALERTS"] = None \/ lower(env["ENABLE_ALERTS"]) # S_true

Temperatures(df) == [i \in DOMAIN df |-> df[i].temperature]

OfType(evs, type) == SelectSeq(evs, LAMBDA e : e.type = type)

\* C6: with alerts on, check_alerts builds at most one heat and one cold
\* event; the heat event exists iff some temperature is above the heat
\* threshold and lists exactly those locations in batch order, the cold event
\* likewise for temperatures below the cold threshold.  With 35 and 0, the
\* batch 36, 20, -1 gives a heat event for the first and a cold event for the
\* third location, and a batch within [0, 35] gives no event
C6_AlertEvents ==
    (pc = "returned" /\ evaluated) =>
        LET heat == settings.val.HEAT_THRESHOLD
            cold == settings.val.COLD_THRESHOLD
            above == SelectSeq(records, LAMBDA r : r.temperature > heat)
            below == SelectSeq(records, LAMBDA r : r.temperature < cold)
        IN  /\ Len(OfType(events, "heat")) = (IF above = <<>> THEN 0 ELSE 1)
            /\ Len(OfType(events, "cold")) = (IF below = <<>> THEN 0 ELSE 1)
            /\ Len(events) = Len(OfType(events, "heat")) + Len(OfType(events, "cold"))
            /\ \A i \in DOMAIN events :
                  /\ events[i].type = "heat" => events[i].cities = city_list(above)
                  /\ events[i].type = "cold" => events[i].cities = city_list(below)
            /\ (heat = 35 /\ cold = 0 /\ Temperatures(records) = <<36, 20, 0 - 1>>) =>
                  /\ Len(events) = 2
                  /\ events[1].type = "heat" /\ events[1].cities = <<records[1].city>>
                  /\ events[2].type = "cold" /\ events[2].cities = <<records[3].city>>
            /\ (heat = 35 /\ cold = 0
                  /\ \A i \in DOMAIN records :
                        records[i].temperature >= 0 /\ records[i].temperature <= 35) =>
                  events = <<>>

\* the batch 36, 20, -1 evaluated with the thresholds 35 and 0
C6_Witness ==
    /\ pc = "returned" /\ evaluated
    /\ settings.val.HEAT_THRESHOLD = 35 /\ settings.val.COLD_THRESHOLD = 0
    /\ Temperatures(records) = <<36, 20, 0 - 1>>
    /\ Len(events) = 2

\* C7: an alert step taken while the flag the process reads is off produces
\* no alert event and sends no email, whatever the batch and the thresholds
C7_DisabledNoAlerts ==
    [][(pc = "alerts" /\ pc' # "alerts" /\ FlagOff(environ)) =>
          /\ ~evaluated' /\ events' = <<>> /\ mails' = <<>>
          /\ pc' = "returned" /\ outcome' = "Success"]_vars

\* the alert step has run with the flag off on a batch above the heat threshold
C7_Witness ==
    /\ pc = "returned" /\ FlagOff(environ) /\ ~evaluated /\ mails = <<>>
    /\ \E i \in DOMAIN records : records[i].temperature = 36
    /\ dotenv["HEAT_WAVE_THRESHOLD"] = S_35

\* the flag as the .env file gives it is on
FlagOn(file) == file["ENABLE_ALERTS"] # None /\ lower(file["ENABLE_ALERTS"]) = S_true

\* C8: the configuration as the operator left it governs the alerting of the
\* next cycle: from the second cycle on, with a configuration that parses,
\* alerts are evaluated exactly when the flag in the .env file is on, and
\* with the thresholds the file gives
C8_EditsGovernNextCycle ==
    [][(pc = "alerts" /\ pc' = "returned" /\ cycles >= 2
            /\ ImportSucceeds(load_dotenv(dotenv, environ, TRUE))) =>
          /\ evaluated' <=> FlagOn(dotenv)
          /\ evaluated' => settings' = reload_env(load_dotenv(dotenv, environ, TRUE))]_vars

\* a numeric setting as the claim resolves it: the number its first word
\* denotes, or the default when it is unset, blank or no number
Resolved(text, default) ==
    IF text # None /\ split(text) # <<>> /\ IsNumeral(split(text)[1])
      THEN NumeralValue(split(text)[1])
      ELSE default

\* C9: configuration parsing raises nothing, neither at import nor in
\* reload_env, and every numeric setting resolves to its number or its default
C9_ConfigNeverRaises ==
    /\ pc # "crashed"
    /\ pc = "reloaded" =>
          /\ settings.exc = ""
          /\ settings.val.HEAT_THRESHOLD = Resolved(environ["HEAT_WAVE_THRESHOLD"], 35)
          /\ settings.val.COLD_THRESHOLD = Resolved(environ["COLD_WAVE_THRESHOLD"], 0)
          /\ settings.val.SMTP_PORT = Resolved(environ["SMTP_PORT"], 587)

\* C10: a request that is not the first of its cycle is issued only after a
\* delay step has followed the request before it
C10_DelayBetweenRequests ==
    [][(Len(requested') = Len(requested) + 1 /\ requested # <<>>) =>
          lastCall = "sleep"]_vars

\* C11: whatever an SMTP session does, connecting, in STARTTLS, logging in or
\* sending, no error leaves send_email_alert: every alert event of the cycle
\* is handed to it, and the cycle ends in Success
C11_NotifyFailureContained ==
    /\ pc \notin {"crashed"} /\ outcome # "Failed"
    /\ (pc = "returned" /\ evaluated) =>
          /\ outcome = "Success"
          /\ Len(mails) = Len(events)
          /\ \A i \in DOMAIN mails : mails[i].type = events[i].type /\ mails[i].exc = ""

\* the connection for the heat alert was refused, and the cold alert of the
\* same cycle was sent
C11_Witness ==
    /\ pc = "returned" /\ outcome = "Success" /\ Len(mails) = 2
    /\ mails[1].type = "heat" /\ mails[1].result = "connect_failed"
    /\ mails[2].type = "cold" /\ mails[2].result = "sent"

\* a setting that is not set (or set to nothing)
Unset(v) == v = None \/ Len(v) = 0

\* C12: with the sender, the password or the recipient not set, every alert
\* event is skipped as "not configured": no SMTP connection, no error
C12_NotConfiguredSkips ==
    (pc = "returned" /\ evaluated
        /\ \E k \in {"EMAIL_SENDER", "EMAIL_PASSWORD", "EMAIL_RECIPIENT"} :
               Unset(settings.val[k])) =>
        /\ outcome = "Success"
        /\ Len(mails) = Len(events)
        /\ \A i \in DOMAIN mails :
              /\ mails[i].result = "not_configured"
              /\ ~mails[i].connected
              /\ mails[i].exc = ""

\* two alerts were skipped because only the recipient is not set
C12_Witness ==
    /\ pc = "returned" /\ evaluated /\ Len(mails) = 2
    /\ settings.val.EMAIL_RECIPIENT = None
    /\ ~Unset(settings.val.EMAIL_SENDER) /\ ~Unset(settings.val.EMAIL_PASSWORD)
    /\ \A i \in DOMAIN mails : mails[i].result = "not_configured"

C14_ImmediateThenInterval ==
    /\ [][(cycles' = cycles + 1 /\ cycles = 0) =>
            pc = "main" /\ now = 0 /\ due_in = NoJob]_vars
    /\ [][(cycles' = cycles + 1 /\ cycles > 0) =>
            pc = "poll" /\ due_in = 0 /\ now >= cycles * IntervalPolls]_vars
    /\ [][(pc = "returned" /\ pc' \in {"poll", "sleep"}) => due_in' = IntervalPolls]_vars
    /\ [][(due_in' < due_in /\ pc' # "exit") =>
            pc = "sleep" /\ due_in' = due_in - 1 /\ now' = now + 1]_vars

\* the second cycle has started, one period after the start of the process
C14_Witness == cycles = 2 /\ pc = "fetch" /\ now = IntervalPolls /\ due_in = 0

Contexts ==
    {<<f, [g EXCEPT !["ENABLE_ALERTS"] = e]>> :
        f \in AlertFiles,
        g \in {x \in AlertFiles : x["ALERT_EMAIL_RECIPIENT"] = S_addr},
        e \in {None, S_true, S_True, S_false}}

\* the Settings of an evaluation: whether alerting is on as the process reads
\* it, and what reload_env returns
SettingsOf(file, env) ==
    <<lower(getenv(env, "ENABLE_ALERTS", S_false)) = S_true,
      reload_env(load_dotenv(file, env, TRUE))>>

C17_SameMinuteOverwrites ==
    [][(pc = "save" /\ saved' = "ok" /\ persisted # <<>>
            /\ now \in DOMAIN snapshots /\ snapshots[now] = persisted[Len(persisted)]) =>
          /\ DOMAIN snapshots' = DOMAIN snapshots
          /\ snapshots'[now] = records
          /\ \A m \in DOMAIN snapshots \ {now} : snapshots'[m] = snapshots[m]
          /\ historical'.rows = Flatten(persisted) \o records
          /\ SubSeq(historical'.rows,
                    Len(historical'.rows) - Len(records) - Len(persisted[Len(persisted)]) + 1,
                    Len(historical'.rows)) = persisted[Len(persisted)] \o records]_vars

\* the process was started again within the minute: two batches persisted,
\* one snapshot file, holding the second
C17_Witness ==
    /\ pc = "train" /\ Len(persisted) = 2 /\ persisted[1] # persisted[2]
    /\ DOMAIN snapshots = {now} /\ snapshots[now] = persisted[2]
    /\ historical.rows = persisted[1] \o persisted[2]

\* C18: the requests of a cycle are the configured locations in configured
\* order, each once: at every moment a prefix of them, and all of them when
\* the fetch is over, whichever of them failed
C18_OneRequestPerLocation ==
    /\ Len(requested) <= NumCities
    /\ requested = SubSeq(Cities, 1, Len(requested))
    /\ InCycle => Len(requested) = (IF pc = "delay" THEN idx ELSE idx - 1)
    /\ pc \in {"save", "train", "alerts", "returned"} => requested = Cities

\* the first location failed and every location after it was requested
C18_Witness ==
    /\ pc = "save" /\ Cities[1] \in failed /\ requested = Cities
    /\ Len(records) = NumCities - 1

\* C19: with alerting on, the alert step of every cycle, the first or a later
\* one, raises a heat (cold) alert exactly when its batch holds a reading
\* above the heat (below the cold) threshold and hands each alert to
\* send_email_alert; the events are those a process just started would raise
\* for the batch, whatever the cycle before raised
C19_NoHysteresis ==
    [][(pc = "alerts" /\ pc' = "returned") =>
          /\ evaluated'
          /\ (\E i \in DOMAIN records :
                  records[i].temperature > settings'.val.HEAT_THRESHOLD)
                <=> (\E j \in DOMAIN events' : events'[j].type = "heat")
          /\ (\E i \in DOMAIN records :
                  records[i].temperature < settings'.val.COLD_THRESHOLD)
                <=> (\E j \in DOMAIN events' : events'[j].type = "cold")
          /\ Len(mails') = Len(events')
          /\ \A j \in DOMAIN events' : mails'[j].type = events'[j].type
          /\ events' = check_alerts(records, dotenv, load_dotenv(dotenv, NoEnv, FALSE),
                                    [t \in {"heat", "cold"} |-> "sent"]).events]_vars

\* the second cycle raised a heat alert, as the first cycle had for its batch
C19_Witness ==
    /\ pc = "returned" /\ cycles = 2 /\ Len(persisted) = 2
    /\ \E i \in DOMAIN persisted[1] : persisted[1][i].temperature = 36
    /\ \E j \in DOMAIN events : events[j].type = "heat"
    /\ \E j \in DOMAIN mails : mails[j].type = "heat"

\* the fetch of the cycle is over and every location failed
AllFailed == idx = NumCities + 1 /\ failed = {Cities[i] : i \in 1..NumCities}

\* C20: when every location failed, the cycle has returned with an empty
\* batch and without an error: nothing was saved or appended, no alert was
\* evaluated, no email sent, none of the files was touched by the cycle, and
\* main goes on to its scheduling loop
C20_EmptyBatchIsValid ==
    /\ [](AllFailed =>
            /\ pc = "returned" /\ outcome = "NoData" /\ running = 0
            /\ records = <<>> /\ saved = "no" /\ trained = "no"
            /\ ~evaluated /\ events = <<>> /\ mails = <<>>
            /\ ENABLED (schedule_job \/ job_done))
    /\ [][(InCycle /\ records' = <<>>) => UNCHANGED files]_vars
    /\ [][AllFailed => (pc' \in {"poll", "sleep", "exit"} /\ UNCHANGED files)]_vars

\* the second cycle got no response at all; the files of the first are there
C20_Witness ==
    /\ AllFailed /\ cycles = 2 /\ outcome = "NoData"
    /\ historical.exists /\ training.exists /\ DOMAIN snapshots # {}

(***************************************************************************)
(* C21, C22.                                                               *)
(***************************************************************************)
\* the frame load_latest_data returned, without the last_updated column
WithoutLastUpdated(df) ==
    [i \in DOMAIN df |->
        [city |-> df[i].city, timestamp |-> df[i].timestamp,
         temperature |-> df[i].temperature]]

\* the rows of the snapshot file written last
LatestSnapshot ==
    snapshots[CHOOSE m \in DOMAIN snapshots : \A k \in DOMAIN snapshots : k <= m]

\* C21: once a cycle has persisted its batch, a call of load_latest_data that
\* reads its file without error returns the rows of the snapshot written
\* last, whatever the platform, and not the historical dataset
C21_DashboardReadsLatestSnapshot ==
    [][(dashboard_df' # dashboard_df /\ dashboard_df'.message = "none" /\ persisted # <<>>) =>
          WithoutLastUpdated(dashboard_df'.df) = LatestSnapshot]_vars

\* the append to the training corpus of this cycle returned False
C22_Witness ==
    /\ pc = "returned" /\ trained = "failed" /\ outcome = "Success"
    /\ evaluated /\ events # <<>> /\ events[1].cities # <<>>
    /\ Len(mails) = Len(events) /\ mails[1].result = "sent"
    /\ historical.rows = records /\ snapshots[now] = records

\* C22: a save_training_data that returns False, with nothing or with part
\* of its rows written, stops nothing: the cycle goes on to the alert step,
\* which evaluates the same batch when alerting is on and hands every event
\* to send_email_alert, the cycle ends in Success, and the snapshot and the
\* historical dataset stay as save_data wrote them
C22_TrainingFailureIsolated ==
    /\ [](trained = "failed" =>
            /\ saved = "ok" /\ pc \in {"alerts", "returned"} /\ outcome # "Failed"
            /\ now \in DOMAIN snapshots /\ snapshots[now] = records
            /\ historical.exists /\ historical.rows = Flatten(persisted)
            /\ persisted[Len(persisted)] = records)
    /\ []((pc = "returned" /\ trained = "failed") =>
            /\ outcome = "Success"
            /\ evaluated <=> ~FlagOff(environ)
            /\ evaluated =>
                  /\ settings.exc = ""
                  /\ events = alerts(records, settings.val)
                  /\ Len(mails) = Len(events)
                  /\ \A i \in DOMAIN mails : mails[i].type = events[i].type)
    /\ [][(pc = "train" \/ (pc = "alerts" /\ trained = "failed")) =>
            UNCHANGED <<historical, snapshots, persisted>>]_vars
====
